---- MODULE Spec2Model ----
(***************************************************************************)
(* Model of the optionpricing package: the Option contract and its        *)
(* validation, the engine constructors, the implied-volatility solver     *)
(* (Newton-Raphson with bisection fallback) and the Monte Carlo engine's   *)
(* use of numpy's process-wide random state.                               *)
(*                                                                         *)
(* Floating-point numbers are modelled as fixed-point integers with ONE    *)
(* standing for 1.0; exp, log, sqrt and the normal distribution functions  *)
(* are computed by series on these integers.                               *)
(***************************************************************************)
EXTENDS Integers, Naturals, Sequences, FiniteSets, TLC

\* ------------------------------------------------------------------------
\* Fixed-point arithmetic (the float operations of the source)
\* ------------------------------------------------------------------------

\* 1.0 in fixed point; HALFW is its square root, used to split products.
ONE == 10^6
HALFW == 10^3

Abs(x) == IF x < 0 THEN -x ELSE x
Sgn(x) == IF x < 0 THEN -1 ELSE 1
Max(a, b) == IF a >= b THEN a ELSE b
Min(a, b) == IF a <= b THEN a ELSE b

\* a*b/ONE on magnitudes, split so that no partial product leaves 32 bits.
MulAbs(a, b) ==
    LET ah == a \div HALFW
        al == a % HALFW
        bh == b \div HALFW
        bl == b % HALFW
        x == ah * bl
        y == al * bh
    IN  ah * bh + (x \div HALFW) + (y \div HALFW)
          + (((x % HALFW) + (y % HALFW)) * HALFW + al * bl) \div ONE

\* float multiplication
Mul(a, b) == Sgn(a) * Sgn(b) * MulAbs(Abs(a), Abs(b))

\* Long division of magnitudes: k more decimal digits of r/b appended to q.
RECURSIVE DivDigits(_, _, _, _)
DivDigits(q, r, b, k) ==
    IF k = 0 THEN q
    ELSE DivDigits(q * 10 + (r * 10) \div b, (r * 10) % b, b, k - 1)

\* A divisor above 2^31/10 is first scaled down with the dividend, so that the
\* running remainder times ten stays within 32 bits.
DivAbs(a, b) ==
    IF b >= 2 * 10^8 THEN DivDigits((a \div 16) \div (b \div 16), (a \div 16) % (b \div 16), b \div 16, 6)
    ELSE DivDigits(a \div b, a % b, b, 6)

\* float division (b # 0)
Div(a, b) == Sgn(a) * Sgn(b) * DivAbs(Abs(a), Abs(b))

\* Newton iteration for the square root, from above, until it stops falling.
RECURSIVE SqrtIter(_, _)
SqrtIter(x, y) ==
    LET z == (y + Div(x, y)) \div 2
    IN  IF z >= y THEN y ELSE SqrtIter(x, z)

\* math.sqrt / np.sqrt (x >= 0)
Sqrt(x) == IF x = 0 THEN 0 ELSE SqrtIter(x, Max(x, ONE))

\* Taylor series sum_{k>=n} t^k/k!, given term = t^(n-1)/(n-1)!.
RECURSIVE ExpSeries(_, _, _)
ExpSeries(t, term, n) ==
    LET next == Mul(term, t) \div n
    IN  IF next = 0 THEN 0 ELSE next + ExpSeries(t, next, n + 1)

\* e^t for 0 <= t < ONE
ExpFrac(t) == ONE + ExpSeries(t, ONE, 1)

\* The argument below which the exponential is 0 in the model.
EXPMIN == -21 * ONE

RECURSIVE ExpPos(_)
\* e^x for x >= 0: e (2.718282) to the integer part, times the series
ExpPos(x) == IF x >= ONE THEN Mul(2718282, ExpPos(x - ONE)) ELSE ExpFrac(x)

\* e^-y for y >= 0, by sevens so that the divisor stays representable
RECURSIVE ExpNeg(_)
ExpNeg(y) ==
    IF y > 7 * ONE THEN Mul(ExpNeg(y - 7 * ONE), Div(ONE, ExpPos(7 * ONE)))
    ELSE Div(ONE, ExpPos(y))

\* math.exp / np.exp; underflows to 0 as the float does (far) below e^-21
Exp(x) ==
    IF x >= 0 THEN ExpPos(x)
    ELSE IF x < EXPMIN THEN 0
    ELSE ExpNeg(-x)

\* ln 2
LN2 == (693147 * HALFW) \div HALFW

\* atanh series z + z^3/3 + z^5/5 + ..., given pw = z^(n-2).
RECURSIVE AtanhSeries(_, _, _)
AtanhSeries(z2, pw, n) ==
    LET next == Mul(pw, z2)
    IN  IF next = 0 THEN 0 ELSE next \div n + AtanhSeries(z2, next, n + 2)

\* ln x for ONE/2 <= x <= 2*ONE
LnNear(x) ==
    LET z == Div(x - ONE, x + ONE)
    IN  2 * (z + AtanhSeries(Mul(z, z), z, 3))

\* math.log (x > 0)
RECURSIVE Ln(_)
Ln(x) ==
    IF x > 2 * ONE THEN LN2 + Ln(x \div 2)
    ELSE IF 2 * x < ONE THEN Ln(2 * x) - LN2
    ELSE LnNear(x)

\* 1/sqrt(2*pi), and the argument beyond which the density is 0 in the model
INV_SQRT_2PI == (398942 * HALFW) \div HALFW
PDFMAX == 40 * ONE

\* scipy.stats.norm.pdf
NormPdf(x) ==
    IF Abs(x) > PDFMAX THEN 0
    ELSE Mul(INV_SQRT_2PI, Exp(-(Mul(x, x) \div 2)))

\* Upper tail of the normal distribution for x >= 0 (Abramowitz-Stegun 26.2.17).
NormTail(x) ==
    LET t == Div(ONE, ONE + Mul(231642, x))
        poly == Mul(t, 319382 + Mul(t, -356564 + Mul(t, 1781478
                    + Mul(t, -1821256 + Mul(t, 1330274)))))
    IN  Mul(NormPdf(x), poly)

\* scipy.stats.norm.cdf
NormCdf(x) == IF x >= 0 THEN ONE - NormTail(x) ELSE NormTail(-x)

\* ------------------------------------------------------------------------
\* Option contract and the Black-Scholes engine
\* ------------------------------------------------------------------------

OptionType == {"call", "put"}
ExerciseStyle == {"european", "american"}

\* BlackScholesModel._calculate_d1_d2
CalculateD1D2(o) ==
    LET S == o.spot_price
        K == o.strike_price
        T == o.time_to_expiry
        r == o.risk_free_rate
        q == o.dividend_yield
        sigma == o.volatility
        sqrt_T == Sqrt(T)
        sigma_sqrt_T == Mul(sigma, sqrt_T)
        d1 == Div(Ln(Div(S, K)) + Mul(r - q + Mul(ONE \div 2, Mul(sigma, sigma)), T),
                  sigma_sqrt_T)
    IN  [d1 |-> d1, d2 |-> d1 - sigma_sqrt_T]

\* BSPrice with the strike taken at face value instead of discounted at the
\* risk-free rate.
BSPriceUndiscountedStrike(o) ==
    LET d == CalculateD1D2(o)
        pv_S == Mul(o.spot_price, Exp(-Mul(o.dividend_yield, o.time_to_expiry)))
    IN  IF o.option_type = "call"
        THEN Mul(pv_S, NormCdf(d.d1)) - Mul(o.strike_price, NormCdf(d.d2))
        ELSE Mul(o.strike_price, NormCdf(-d.d2)) - Mul(pv_S, NormCdf(-d.d1))

\* BlackScholesModel.price
BSPrice(o) ==
    LET d == CalculateD1D2(o)
        pv_S == Mul(o.spot_price, Exp(-Mul(o.dividend_yield, o.time_to_expiry)))
        pv_K == Mul(o.strike_price, Exp(-Mul(o.risk_free_rate, o.time_to_expiry)))
    IN  IF o.option_type = "call"
        THEN Mul(pv_S, NormCdf(d.d1)) - Mul(pv_K, NormCdf(d.d2))
        ELSE Mul(pv_K, NormCdf(-d.d2)) - Mul(pv_S, NormCdf(-d.d1))

\* BlackScholesModel.vega (per 1% volatility change)
BSVega(o) ==
    LET d == CalculateD1D2(o)
        sqrt_T == Sqrt(o.time_to_expiry)
        phi_d1 == NormPdf(d.d1)
        discount == Exp(-Mul(o.dividend_yield, o.time_to_expiry))
    IN  Mul(Mul(Mul(o.spot_price, discount), sqrt_T), phi_d1) \div 100

\* BlackScholesModel.delta
BSDelta(o) ==
    LET d == CalculateD1D2(o)
        discount == Exp(-Mul(o.dividend_yield, o.time_to_expiry))
    IN  IF o.option_type = "call" THEN Mul(discount, NormCdf(d.d1))
        ELSE -Mul(discount, NormCdf(-d.d1))

\* BSGamma taken with the sign of the position's delta: negative for a put.
BSGammaSignedByType(o) ==
    LET d == CalculateD1D2(o)
        discount == Exp(-Mul(o.dividend_yield, o.time_to_expiry))
        sqrt_T == Sqrt(o.time_to_expiry)
        phi_d1 == NormPdf(d.d1)
        gamma == Div(Mul(discount, phi_d1), Mul(Mul(o.spot_price, o.volatility), sqrt_T))
    IN  IF o.option_type = "call" THEN gamma ELSE -gamma

\* BlackScholesModel.gamma
BSGamma(o) ==
    LET d == CalculateD1D2(o)
        discount == Exp(-Mul(o.dividend_yield, o.time_to_expiry))
        sqrt_T == Sqrt(o.time_to_expiry)
        phi_d1 == NormPdf(d.d1)
    IN  Div(Mul(discount, phi_d1), Mul(Mul(o.spot_price, o.volatility), sqrt_T))

\* BlackScholesModel.theta (per calendar day: the annual rate / 365)
BSTheta(o) ==
    LET d == CalculateD1D2(o)
        S == o.spot_price
        K == o.strike_price
        T == o.time_to_expiry
        r == o.risk_free_rate
        q == o.dividend_yield
        sigma == o.volatility
        sqrt_T == Sqrt(T)
        phi_d1 == NormPdf(d.d1)
        term1 == -Div(Mul(Mul(Mul(S, sigma), Exp(-Mul(q, T))), phi_d1), 2 * sqrt_T)
        theta_per_year ==
            IF o.option_type = "call"
            THEN term1 + Mul(Mul(Mul(q, S), Exp(-Mul(q, T))), NormCdf(d.d1))
                       - Mul(Mul(Mul(r, K), Exp(-Mul(r, T))), NormCdf(d.d2))
            ELSE term1 - Mul(Mul(Mul(q, S), Exp(-Mul(q, T))), NormCdf(-d.d1))
                       + Mul(Mul(Mul(r, K), Exp(-Mul(r, T))), NormCdf(-d.d2))
    IN  Div(theta_per_year, 365 * ONE)

\* BlackScholesModel.rho (per 1% rate change)
BSRho(o) ==
    LET d == CalculateD1D2(o)
        pv_K == Mul(o.strike_price, Exp(-Mul(o.risk_free_rate, o.time_to_expiry)))
    IN  IF o.option_type = "call"
        THEN Div(Mul(Mul(pv_K, o.time_to_expiry), NormCdf(d.d2)), 100 * ONE)
        ELSE Div(-Mul(Mul(pv_K, o.time_to_expiry), NormCdf(-d.d2)), 100 * ONE)

\* BlackScholesModel.greeks
BSGreeks(o) ==
    [delta |-> BSDelta(o), gamma |-> BSGamma(o), theta |-> BSTheta(o),
     vega |-> BSVega(o), rho |-> BSRho(o)]

\* ------------------------------------------------------------------------
\* State
\* ------------------------------------------------------------------------

VARIABLES
    option,     \* the Option the caller holds (NoOption before construction)
    built,      \* the field values that Option was constructed with
    perturbed,  \* the Option last built from option.model_dump() with one field replaced
    engine,     \* the engine instance the caller holds (NoEngine if none)
    last,       \* the last operation, its arguments and the exception it raised
    assigns,    \* attribute assignments made to the Option so far
    iv,         \* the running implied_volatility call
    rng,        \* numpy's process-wide random state (np.random)
    mc,         \* the MonteCarloModel instances in existence
    mcret,      \* what the last Monte Carlo call of the main thread returned
    threads     \* the position of each thread inside MonteCarloModel.price()

vars == <<option, built, perturbed, engine, last, assigns, iv, rng, mc, mcret, threads>>

mcVars == <<rng, mc, mcret, threads>>

objVars == <<option, built, perturbed, engine, last, assigns>>

NoOption == [none |-> TRUE]
NoEngine == [cls |-> "none"]
NoException == "none"

\* The exception classes: pydantic's ValidationError, which Option raises, and
\* the package's own classes of utils/exceptions.py, each with its direct base.
PydanticValidationError == "pydantic_core.ValidationError"
PackageValidationError == "optionpricing.utils.exceptions.ValidationError"
ExceptionBase ==
    [c \in {"Exception", "ValueError", PydanticValidationError, "OptionPricingError",
            PackageValidationError, "ConvergenceError", "DataFetchError",
            "InvalidOptionError", "ImpliedVolatilityError", "PricingMethodError"} |->
        CASE c = "Exception" -> "BaseException"
          [] c = "ValueError" -> "Exception"
          [] c = PydanticValidationError -> "ValueError"
          [] c = "OptionPricingError" -> "Exception"
          [] c = PackageValidationError -> "OptionPricingError"
          [] c = "ConvergenceError" -> "OptionPricingError"
          [] c = "DataFetchError" -> "OptionPricingError"
          [] c = "InvalidOptionError" -> PackageValidationError
          [] c = "ImpliedVolatilityError" -> "ConvergenceError"
          [] c = "PricingMethodError" -> "OptionPricingError"]

\* issubclass(c, b)
RECURSIVE IsSubclass(_, _)
IsSubclass(c, b) ==
    \/ c = b
    \/ c \in DOMAIN ExceptionBase /\ IsSubclass(ExceptionBase[c], b)

\* An "except handler:" clause catches an exception of class raised.
Catches(handler, raised) == raised # NoException /\ IsSubclass(raised, handler)
\* None, for a value that is held in a one-element tuple when present
NoValue == <<>>

\* ------------------------------------------------------------------------
\* Option: construction, validation, attribute assignment, model_dump copies
\* ------------------------------------------------------------------------

MakeOption(S, K, T, sigma, r, ty, style, q) ==
    [spot_price |-> S, strike_price |-> K, time_to_expiry |-> T, volatility |-> sigma,
     risk_free_rate |-> r, option_type |-> ty, exercise_style |-> style,
     dividend_yield |-> q]

\* Option.validate_time_to_expiry: TRUE iff the validator returns v
ValidateTimeToExpiry(v) == ~(v <= 0)

\* OptionValid with volatility declared Field(ge=0) instead of Field(gt=0).
OptionValidVolatilityGe(f) ==
    /\ f.spot_price > 0
    /\ f.strike_price > 0
    /\ f.time_to_expiry > 0
    /\ ValidateTimeToExpiry(f.time_to_expiry)
    /\ f.volatility >= 0
    /\ f.option_type \in OptionType
    /\ f.exercise_style \in ExerciseStyle
    /\ f.dividend_yield >= 0

\* The Field constraints of Option (gt=0, ge=0, the two enumerations) and its
\* field validator: TRUE iff Option(**f) constructs.
OptionValid(f) ==
    /\ f.spot_price > 0
    /\ f.strike_price > 0
    /\ f.time_to_expiry > 0
    /\ ValidateTimeToExpiry(f.time_to_expiry)
    /\ f.volatility > 0
    /\ f.option_type \in OptionType
    /\ f.exercise_style \in ExerciseStyle
    /\ f.dividend_yield >= 0

\* Values offered for the numeric fields: below, at and above each bound.
SpotValues == {0, ONE}
StrikeValues == {0, ONE}
TimeValues == {-ONE, 0, ONE}
VolValues == {0, ONE \div 5}
RateValues == {-(ONE \div 20), 0, ONE \div 20}
DividendValues == {-(ONE \div 50), 0, ONE \div 50}

OptionInputs ==
    { MakeOption(S, K, T, sigma, r, ty, style, q) :
        S \in SpotValues, K \in StrikeValues, T \in TimeValues, sigma \in VolValues,
        r \in RateValues, ty \in OptionType, style \in ExerciseStyle,
        q \in DividendValues }

NumericFields ==
    {"spot_price", "strike_price", "time_to_expiry", "volatility", "risk_free_rate",
     "dividend_yield"}

FieldValues(field) ==
    CASE field = "spot_price" -> SpotValues
      [] field = "strike_price" -> StrikeValues
      [] field = "time_to_expiry" -> TimeValues
      [] field = "volatility" -> VolValues
      [] field = "risk_free_rate" -> RateValues
      [] field = "dividend_yield" -> DividendValues
      [] field = "option_type" -> OptionType
      [] field = "exercise_style" -> ExerciseStyle

Fields == NumericFields \cup {"option_type", "exercise_style"}

\* Attribute assignments one Option receives in a run.
MaxAssign == 1

\* Option(**f): validates eagerly; pydantic raises its ValidationError and no
\* Option value comes into existence.
NewOption(f) ==
    /\ option = NoOption
    /\ IF OptionValid(f)
         THEN /\ option' = f
              /\ built' = f
              /\ last' = [op |-> "Option", args |-> f, raised |-> NoException]
         ELSE /\ UNCHANGED <<option, built>>
              /\ last' = [op |-> "Option", args |-> f, raised |-> PydanticValidationError]
    /\ UNCHANGED <<perturbed, engine, assigns, iv, mcVars>>

\* option.<field> = v.  The model_config of Option sets neither frozen nor
\* validate_assignment, so the assignment is stored without any check.
SetAttr(field, v) ==
    /\ option # NoOption
    /\ assigns < MaxAssign
    /\ option' = [option EXCEPT ![field] = v]
    /\ assigns' = assigns + 1
    /\ last' = [op |-> "setattr", args |-> <<>>, raised |-> NoException]
    /\ UNCHANGED <<built, perturbed, engine, iv, mcVars>>

\* Option(**{**option.model_dump(), field: v}), the copy the Greeks calculator
\* makes: a validated construction of a new Option; the original is only read.
ModelDumpCopy(field, v) ==
    /\ option # NoOption
    /\ LET f == [option EXCEPT ![field] = v]
       IN  IF OptionValid(f)
             THEN /\ perturbed' = f
                  /\ last' = [op |-> "copy", args |-> <<>>, raised |-> NoException]
             ELSE /\ UNCHANGED perturbed
                  /\ last' = [op |-> "copy", args |-> <<>>, raised |-> PydanticValidationError]
    /\ UNCHANGED <<option, built, engine, assigns, iv, mcVars>>

\* ------------------------------------------------------------------------
\* Engine constructors
\* ------------------------------------------------------------------------

\* Engine configurations offered to the constructors.
NumStepsValues == {100}
NumSimulationsValues == {10000}
\* random_seed = None
NoSeed == -1
DEFAULT_RANDOM_SEED == 42
SeedValues == {NoSeed, DEFAULT_RANDOM_SEED}

\* RejectsStyle with the check left out of the constructor.
RejectsNoStyle(o) == FALSE

\* The exercise-style check of BlackScholesModel.__init__ and
\* MonteCarloModel.__init__: TRUE iff InvalidOptionError is raised.
RejectsStyle(o) == o.exercise_style # "european"

\* BlackScholesModel(option)
NewBlackScholesModel ==
    /\ option # NoOption
    /\ IF RejectsStyle(option)
         THEN /\ engine' = NoEngine
              /\ last' = [op |-> "BlackScholesModel", args |-> <<>>,
                          raised |-> "InvalidOptionError"]
         ELSE /\ engine' = [cls |-> "BlackScholesModel"]
              /\ last' = [op |-> "BlackScholesModel", args |-> <<>>,
                          raised |-> NoException]
    /\ UNCHANGED <<option, built, perturbed, assigns, iv, mcVars>>

\* MonteCarloModel(option, num_simulations, use_antithetic, random_seed)
NewMonteCarloModel(n, anti, seed) ==
    /\ option # NoOption
    /\ IF RejectsStyle(option)
         THEN /\ engine' = NoEngine
              /\ last' = [op |-> "MonteCarloModel", args |-> <<n, anti, seed>>,
                          raised |-> "InvalidOptionError"]
         ELSE /\ engine' = [cls |-> "MonteCarloModel", num_simulations |-> n,
                            use_antithetic |-> anti, random_seed |-> seed,
                            standard_error |-> NoValue]
              /\ last' = [op |-> "MonteCarloModel", args |-> <<n, anti, seed>>,
                          raised |-> NoException]
    /\ UNCHANGED <<option, built, perturbed, assigns, iv, mcVars>>

\* BinomialTreeModel(option, num_steps): no check of the exercise style
NewBinomialTreeModel(n) ==
    /\ option # NoOption
    /\ engine' = [cls |-> "BinomialTreeModel", num_steps |-> n]
    /\ last' = [op |-> "BinomialTreeModel", args |-> <<n>>, raised |-> NoException]
    /\ UNCHANGED <<option, built, perturbed, assigns, iv, mcVars>>

\* The caller drops its references; the next request constructs anew.
Discard ==
    /\ last.op # "none"
    /\ option' = NoOption
    /\ built' = NoOption
    /\ perturbed' = NoOption
    /\ engine' = NoEngine
    /\ assigns' = 0
    /\ last' = [op |-> "none", args |-> <<>>, raised |-> NoException]
    /\ UNCHANGED <<iv, mcVars>>

\* ------------------------------------------------------------------------
\* Implied volatility: implied_volatility, _newton_raphson, _bisection_method
\* ------------------------------------------------------------------------

IV_MIN_VALUE == ONE \div 1000
IV_MAX_VALUE == 5 * ONE
IV_INITIAL_GUESS == (3 * ONE) \div 10
IV_SOLVER_MAX_ITERATIONS == 50
IV_SOLVER_TOLERANCE == ONE \div 100000

\* The smallest positive value of the model stands for the 1e-10 below which
\* _newton_raphson calls vega negligible.
VEGA_NEGLIGIBLE == 1

\* The 0.01 of time value below which implied_volatility goes to bisection.
NEAR_INTRINSIC == ONE \div 100

\* _calculate_intrinsic_value
CalculateIntrinsicValue(spot, strike, time, rate, option_type, div_yield) ==
    IF option_type = "call"
    THEN Max(Mul(spot, Exp(-Mul(div_yield, time))) - Mul(strike, Exp(-Mul(rate, time))), 0)
    ELSE Max(Mul(strike, Exp(-Mul(rate, time))) - Mul(spot, Exp(-Mul(div_yield, time))), 0)

\* The trial contract both methods build at a trial volatility.
TrialOption(a, vol) ==
    MakeOption(a.spot_price, a.strike_price, a.time_to_expiry, vol, a.risk_free_rate,
               a.option_type, "european", a.dividend_yield)

\* The arguments _bisection_method is called with.
BisectionArgs(a) ==
    [spot |-> a.spot_price, strike |-> a.strike_price, time |-> a.time_to_expiry,
     rate |-> a.risk_free_rate, target_price |-> a.market_price,
     option_type |-> a.option_type, div_yield |-> a.dividend_yield,
     tolerance |-> a.tolerance, max_iter |-> a.max_iterations]

IvIdle == [pc |-> "idle"]

\* The record of a call that has just been entered with arguments a.
IvEntered(a) ==
    [pc |-> "entered", args |-> a, vol |-> 0, i |-> 0, vol_low |-> 0, vol_high |-> 0,
     bis_args |-> <<>>, result |-> 0, returned_by |-> "none", raised |-> NoException,
     detail |-> "none", trials |-> 0, newton_runs |-> 0, bisection_runs |-> 0,
     newton_error |-> "none"]

\* raise exc out of implied_volatility
IvRaise(s, exc, why) == [s EXCEPT !.pc = "raised", !.raised = exc, !.detail = why]

\* return v out of implied_volatility
IvReturn(s, v, by) == [s EXCEPT !.pc = "returned", !.result = v, !.returned_by = by]

\* StartBisection with an upper end of 10.0 in place of IV_MAX_VALUE.
StartBisectionWide(s) ==
    [s EXCEPT !.pc = "bisection", !.i = 0, !.vol_low = IV_MIN_VALUE,
              !.vol_high = 2 * IV_MAX_VALUE, !.bis_args = BisectionArgs(s.args),
              !.bisection_runs = @ + 1]

\* Entry of _bisection_method(spot, ..., tolerance, max_iterations)
StartBisection(s) ==
    [s EXCEPT !.pc = "bisection", !.i = 0, !.vol_low = IV_MIN_VALUE,
              !.vol_high = IV_MAX_VALUE, !.bis_args = BisectionArgs(s.args),
              !.bisection_runs = @ + 1]

\* StartNewton from the default guess, whatever initial_guess was passed.
StartNewtonFromDefault(s) ==
    [s EXCEPT !.pc = "newton", !.i = 0, !.vol = IV_INITIAL_GUESS,
              !.newton_runs = @ + 1]

\* Entry of _newton_raphson(spot, ..., initial_guess, tolerance, max_iterations)
StartNewton(s) ==
    [s EXCEPT !.pc = "newton", !.i = 0, !.vol = s.args.initial_guess,
              !.newton_runs = @ + 1]

\* OnNewtonError without the except clause: the error reaches the caller.
PropagateNewtonError(s, why) ==
    IvRaise([s EXCEPT !.newton_error = why], "ImpliedVolatilityError", why)

\* OnNewtonError that starts Newton-Raphson over in place of the fallback.
OnNewtonErrorRetries(s, why) == StartNewton([s EXCEPT !.newton_error = why])

\* except ImpliedVolatilityError: return _bisection_method(...)
OnNewtonError(s, why) == StartBisection([s EXCEPT !.newton_error = why])

\* The two precondition checks of implied_volatility: the exception detail, or
\* "none" when both pass.
Precondition(market_price, intrinsic_value) ==
    IF market_price < intrinsic_value THEN "below_intrinsic"
    ELSE IF market_price <= 0 THEN "not_positive"
    ELSE "none"

\* GoesToBisection with a threshold of 0.001.
GoesToBisectionTenth(market_price, intrinsic_value) ==
    market_price - intrinsic_value < NEAR_INTRINSIC \div 10

\* The routing test of implied_volatility.
GoesToBisection(market_price, intrinsic_value) ==
    market_price - intrinsic_value < NEAR_INTRINSIC

\* implied_volatility(...) up to the call of one of the two methods
ImpliedVolatility(a) ==
    /\ iv.pc = "idle"
    /\ LET intrinsic_value ==
               CalculateIntrinsicValue(a.spot_price, a.strike_price, a.time_to_expiry,
                                       a.risk_free_rate, a.option_type, a.dividend_yield)
           failed == Precondition(a.market_price, intrinsic_value)
           s == IvEntered(a)
       IN  iv' = IF failed # "none" THEN IvRaise(s, "ImpliedVolatilityError", failed)
                 ELSE IF GoesToBisection(a.market_price, intrinsic_value)
                      THEN StartBisection(s)
                 ELSE StartNewton(s)
    /\ UNCHANGED <<objVars, mcVars>>

\* NewtonUpdate clamped into [IV_MIN_VALUE, 10.0].
NewtonUpdateWide(vol, price_diff, vega) ==
    IF Abs(price_diff) \div (vega * 100) >= 1000
    THEN (IF price_diff > 0 THEN IV_MIN_VALUE ELSE 2 * IV_MAX_VALUE)
    ELSE Max(IV_MIN_VALUE, Min(2 * IV_MAX_VALUE, vol - Div(price_diff, vega * 100)))

\* vol - price_diff / (vega * 100), clamped into [IV_MIN_VALUE, IV_MAX_VALUE].
\* A quotient beyond 1000 is not representable and is clamped by its sign (every
\* trial volatility offered is far below 1000).
NewtonUpdate(vol, price_diff, vega) ==
    IF Abs(price_diff) \div (vega * 100) >= 1000
    THEN (IF price_diff > 0 THEN IV_MIN_VALUE ELSE IV_MAX_VALUE)
    ELSE Max(IV_MIN_VALUE, Min(IV_MAX_VALUE, vol - Div(price_diff, vega * 100)))

\* One iteration of the loop of _newton_raphson
NewtonStep ==
    /\ iv.pc = "newton"
    /\ iv.i < iv.args.max_iterations
    /\ LET a == iv.args
           o == TrialOption(a, iv.vol)
           s == [iv EXCEPT !.trials = @ + 1]
       IN  IF ~OptionValid(o)
           THEN iv' = IvRaise(iv, PydanticValidationError, "trial_option")
           ELSE \E price \in {BSPrice(o)}, vega \in {BSVega(o)} :
                LET price_diff == price - a.market_price
                IN  iv' = IF Abs(price_diff) < a.tolerance
                            THEN IvReturn(s, iv.vol, "newton")
                          ELSE IF Abs(vega) < VEGA_NEGLIGIBLE
                            THEN OnNewtonError(s, "vega")
                          ELSE [s EXCEPT !.vol = NewtonUpdate(iv.vol, price_diff, vega),
                                         !.i = @ + 1]
    /\ UNCHANGED <<objVars, mcVars>>

\* The loop of _newton_raphson ends without convergence: it raises, and the
\* caller falls back.
NewtonExhausted ==
    /\ iv.pc = "newton"
    /\ iv.i >= iv.args.max_iterations
    /\ iv' = OnNewtonError(iv, "max_iterations")
    /\ UNCHANGED <<objVars, mcVars>>

\* One iteration of the loop of _bisection_method
BisectionStep ==
    /\ iv.pc = "bisection"
    /\ iv.i < iv.bis_args.max_iter
    /\ LET b == iv.bis_args
           vol_mid == (iv.vol_low + iv.vol_high) \div 2
           o == MakeOption(b.spot, b.strike, b.time, vol_mid, b.rate, b.option_type,
                           "european", b.div_yield)
           s == [iv EXCEPT !.trials = @ + 1]
       IN  IF ~OptionValid(o)
           THEN iv' = IvRaise(iv, PydanticValidationError, "trial_option")
           ELSE \E price_mid \in {BSPrice(o)} :
                LET low == IF price_mid < b.target_price THEN vol_mid ELSE iv.vol_low
                    high == IF price_mid < b.target_price THEN iv.vol_high ELSE vol_mid
                IN  iv' = IF Abs(price_mid - b.target_price) < b.tolerance
                            THEN IvReturn(s, vol_mid, "bisection_tolerance")
                          ELSE IF high - low < b.tolerance
                            THEN IvReturn([s EXCEPT !.vol_low = low, !.vol_high = high],
                                          vol_mid, "bisection_bracket")
                          ELSE [s EXCEPT !.vol_low = low, !.vol_high = high, !.i = @ + 1]
    /\ UNCHANGED <<objVars, mcVars>>

\* The loop of _bisection_method ends without convergence.
BisectionExhausted ==
    /\ iv.pc = "bisection"
    /\ iv.i >= iv.bis_args.max_iter
    /\ iv' = IvRaise(iv, "ImpliedVolatilityError", "bisection_max_iterations")
    /\ UNCHANGED <<objVars, mcVars>>

\* The caller takes the value or the exception; the next call starts afresh.
IvDone ==
    /\ iv.pc \in {"returned", "raised"}
    /\ iv' = IvIdle
    /\ UNCHANGED <<objVars, mcVars>>

\* Arguments offered to implied_volatility (S = 100, T = 1 year).
SmallIterations == 3
IvStrikes == {90 * ONE, 100 * ONE, 110 * ONE}
IvRates == {0, ONE \div 20}
\* The price of the at-the-money call (S = K = 100, T = 1, r = 0) at a
\* volatility of 600%, a quote the guess of 6.0 below meets at once.
PriceAtSixHundredPercent ==
    BSPrice(MakeOption(100 * ONE, 100 * ONE, ONE, 6 * ONE, 0, "call", "european", 0))
IvMarketPrices ==
    {0, ONE \div 200, ONE \div 100, 5 * ONE, 10 * ONE, 10 * ONE + ONE \div 200,
     10 * ONE + (45 * ONE) \div 100, PriceAtSixHundredPercent, 150 * ONE}
IvGuesses == {IV_INITIAL_GUESS, ONE \div 100, 0, 6 * ONE}
IvTolerances == {ONE \div 1000}
IvIterations == {SmallIterations, IV_SOLVER_MAX_ITERATIONS}

IvInputs ==
    [spot_price : {100 * ONE}, strike_price : IvStrikes, time_to_expiry : {ONE},
     risk_free_rate : IvRates, market_price : IvMarketPrices, option_type : OptionType,
     dividend_yield : {0}, initial_guess : IvGuesses, tolerance : IvTolerances,
     max_iterations : IvIterations]

\* ------------------------------------------------------------------------
\* Monte Carlo engine and numpy's global random state
\* ------------------------------------------------------------------------

\* The states of the generator behind np.random.
RngStates == 0 .. 7

\* np.random.seed(seed): the generator state is a function of the seed alone.
SeedState(seed) == seed % 8

\* The generator steps to its next state with every value drawn.
Advance(st) == (5 * st + 3) % 8

\* The standard normal value drawn in state st, one of -1.5, -1, ..., 1.5.
NormalOf(st) == (((3 * st + 1) % 7) - 3) * (ONE \div 2)

\* np.random.standard_normal(n) from state st: the n values, in order.
RECURSIVE StandardNormal(_, _)
StandardNormal(st, n) ==
    IF n = 0 THEN <<>> ELSE <<NormalOf(st)>> \o StandardNormal(Advance(st), n - 1)

\* The generator state after n values were drawn from state st.
RECURSIVE AfterDraws(_, _)
AfterDraws(st, n) == IF n = 0 THEN st ELSE AfterDraws(Advance(st), n - 1)

\* _generate_price_paths without the seeding statement.
RngNeverSeeded(st, seed) == st

\* if self.random_seed is not None: np.random.seed(self.random_seed)
RngAfterSeeding(st, seed) == IF seed # NoSeed THEN SeedState(seed) ELSE st

\* The number of values _generate_price_paths draws.
NumDraws(m) == IF m.use_antithetic THEN m.num_simulations \div 2 ELSE m.num_simulations

Negated(Z) == [k \in 1 .. Len(Z) |-> -Z[k]]

\* The rest of _generate_price_paths: the terminal prices from the drawn Z.
TerminalPrices(o, m, Z) ==
    LET S == o.spot_price
        r == o.risk_free_rate
        q == o.dividend_yield
        sigma == o.volatility
        T == o.time_to_expiry
        drift == Mul(r - q - Mul(ONE \div 2, Mul(sigma, sigma)), T)
        diffusion == Mul(sigma, Sqrt(T))
        Z_anti == IF m.use_antithetic THEN Z \o Negated(Z) ELSE Z
    IN  [k \in 1 .. Len(Z_anti) |-> Mul(S, Exp(drift + Mul(diffusion, Z_anti[k])))]

\* MonteCarloModel._calculate_payoffs
CalculatePayoffs(o, stock_prices) ==
    [k \in 1 .. Len(stock_prices) |->
        IF o.option_type = "call" THEN Max(stock_prices[k] - o.strike_price, 0)
        ELSE Max(o.strike_price - stock_prices[k], 0)]

RECURSIVE SeqSum(_)
SeqSum(xs) == IF xs = <<>> THEN 0 ELSE Head(xs) + SeqSum(Tail(xs))

\* np.mean
Mean(xs) == SeqSum(xs) \div Len(xs)

\* np.std(xs, ddof=1) (Len(xs) >= 2)
StdDev(xs) ==
    LET mean == Mean(xs)
        sq == [k \in 1 .. Len(xs) |-> Mul(xs[k] - mean, xs[k] - mean)]
    IN  Sqrt(SeqSum(sq) \div (Len(xs) - 1))

\* MonteCarloModel.price after the paths were generated: the price and the
\* standard error it stores.
PriceOfDraws(o, m, Z) ==
    LET ST == TerminalPrices(o, m, Z)
        payoffs == CalculatePayoffs(o, ST)
        discount_factor == Exp(-Mul(o.risk_free_rate, o.time_to_expiry))
    IN  [paths |-> ST,
         price |-> Mul(discount_factor, Mean(payoffs)),
         standard_error |-> Div(Mul(discount_factor, StdDev(payoffs)),
                                Sqrt(m.num_simulations * ONE))]

McIds == {"a", "b"}
ThreadIds == {"t1", "t2"}

\* The instance each thread works on: an instance is used by one thread only.
InstanceOf(t) == IF t = "t1" THEN "a" ELSE "b"

\* Contracts and configurations offered to MonteCarloModel (S = K = 10).
McOption(ty, style) ==
    MakeOption(10 * ONE, 10 * ONE, ONE, ONE \div 5, ONE \div 20, ty, style, 0)
\* A call so far out of the money (K = 2 S) that no path ends in the money.
McFarOutOption ==
    MakeOption(10 * ONE, 20 * ONE, ONE, ONE \div 5, ONE \div 20, "call", "european", 0)
McOptions == {McOption("call", "european"), McOption("put", "european"),
              McOption("call", "american"), McFarOutOption}
McSimulations == {4}
McSeeds == {NoSeed, DEFAULT_RANDOM_SEED, 7}

\* PriceOfDraws over every contract, configuration and run of draws that occurs,
\* computed once.
DrawCounts == McSimulations \cup {n \div 2 : n \in McSimulations}
PriceTable ==
    [o \in McOptions, anti \in BOOLEAN, n \in McSimulations,
     Z \in {StandardNormal(st, k) : st \in RngStates, k \in DrawCounts} |->
        PriceOfDraws(o, [num_simulations |-> n, use_antithetic |-> anti], Z)] @@ <<>>

\* price, standard error and terminal prices of instance m from the values Z it
\* drew (looked up when tabulated)
Tabulated(table, key, computed) ==
    IF key \in DOMAIN table THEN table[key] ELSE computed

PriceOf(m, Z) ==
    Tabulated(PriceTable, <<m.option, m.use_antithetic, m.num_simulations, Z>>,
              PriceOfDraws(m.option, m, Z))

\* MonteCarloModel.price() run without interruption from generator state st:
\* price, standard error and the generator state it leaves.
PriceOutcome(m, st) ==
    PriceOf(m, StandardNormal(RngAfterSeeding(st, m.random_seed), NumDraws(m)))
      @@ [rng |-> AfterDraws(RngAfterSeeding(st, m.random_seed), NumDraws(m))]

NoReturn == [op |-> "none"]
ThreadIdle == [pc |-> "idle"]

SingleThreaded == \A t \in ThreadIds : threads[t] = ThreadIdle

\* MonteCarloModel(o, n, anti, seed) assigned to the caller's variable i
McNew(i, o, n, anti, seed) ==
    /\ SingleThreaded
    /\ mc[i] = NoEngine
    /\ IF RejectsStyle(o)
         THEN /\ mcret' = [op |-> "MonteCarloModel", inst |-> i,
                           raised |-> "InvalidOptionError"]
              /\ UNCHANGED mc
         ELSE /\ mcret' = [op |-> "MonteCarloModel", inst |-> i, raised |-> NoException]
              /\ mc' = [mc EXCEPT ![i] =
                          [cls |-> "MonteCarloModel", option |-> o, num_simulations |-> n,
                           use_antithetic |-> anti, random_seed |-> seed,
                           standard_error |-> NoValue, last_price |-> NoValue,
                           last_paths |-> NoValue]]
    /\ UNCHANGED <<objVars, iv, rng, threads>>

\* The caller drops instance i.
McDrop(i) ==
    /\ SingleThreaded
    /\ mc[i] # NoEngine
    /\ mc' = [mc EXCEPT ![i] = NoEngine]
    /\ mcret' = NoReturn
    /\ UNCHANGED <<objVars, iv, rng, threads>>

\* mc[i].price() in the main thread
McPrice(i) ==
    /\ SingleThreaded
    /\ mc[i] # NoEngine
    /\ \E out \in {PriceOutcome(mc[i], rng)} :
           /\ rng' = out.rng
           /\ mc' = [mc EXCEPT ![i].standard_error = <<out.standard_error>>,
                               ![i].last_price = <<out.price>>,
                               ![i].last_paths = <<out.paths>>]
           /\ mcret' = [op |-> "price", inst |-> i, value |-> out.price]
    /\ UNCHANGED <<objVars, iv, threads>>

\* scipy.stats.norm.ppf at (1 + confidence_level) / 2, for the default level 0.95
NormPpf(p) == CASE p = (975 * ONE) \div 1000 -> 1959964

\* mc[i].get_confidence_interval(): prices again (on either branch), then
\* returns price -/+ z * standard error.
McConfidenceInterval(i) ==
    /\ SingleThreaded
    /\ mc[i] # NoEngine
    /\ \E out \in {PriceOutcome(mc[i], rng)} :
       LET z == NormPpf((ONE + (95 * ONE) \div 100) \div 2)
           margin == Mul(z, out.standard_error)
       IN  /\ rng' = out.rng
           /\ mc' = [mc EXCEPT ![i].standard_error = <<out.standard_error>>,
                               ![i].last_price = <<out.price>>,
                               ![i].last_paths = <<out.paths>>]
           /\ mcret' = [op |-> "get_confidence_interval", inst |-> i,
                        prior |-> mc[i].last_price,
                        value |-> <<out.price - margin, out.price + margin>>]
    /\ UNCHANGED <<objVars, iv, threads>>

\* The pricings calculate_all_greeks() makes on instance m, in order: "self" is
\* self.model.price(), "new" the price() of a new instance of the same class
\* and configuration on a perturbed contract.  delta prices S+h and S-h; gamma the
\* instance itself, S+h and S-h; theta the instance itself and, when T > h, T-h;
\* vega and rho two perturbed contracts each.  vega builds its two contracts
\* before pricing: with volatility - 0.01 not positive the ValidationError ends
\* the call after theta.
GreeksPricings(m) ==
    LET h == ONE \div 365
        through_theta ==
            <<"new", "new", "self", "new", "new", "self">>
              \o (IF m.option.time_to_expiry <= h THEN <<>> ELSE <<"new">>)
        vega_valid ==
            OptionValid([m.option EXCEPT !.volatility = @ - ONE \div 100])
    IN  [pricings |-> IF vega_valid THEN through_theta \o <<"new", "new", "new", "new">>
                      ELSE through_theta,
         raised |-> IF vega_valid THEN NoException ELSE PydanticValidationError]

\* The generator state and the instance's cached values after the pricings ps,
\* from state acc = [rng, standard_error, last_price, last_paths].
\* The generator state after a price() of the instance itself, with what the
\* instance keeps of its outcome out.
Cached(after, out) ==
    [rng |-> after, standard_error |-> <<out.standard_error>>,
     last_price |-> <<out.price>>, last_paths |-> <<out.paths>>]

RECURSIVE AfterPricings(_, _, _)
AfterPricings(m, ps, acc) ==
    IF ps = <<>> THEN acc
    ELSE LET seeded == RngAfterSeeding(acc.rng, m.random_seed)
             after == AfterDraws(seeded, NumDraws(m))
         IN  IF Head(ps) = "self"
             THEN AfterPricings(m, Tail(ps),
                                Cached(after, PriceOf(m, StandardNormal(seeded, NumDraws(m)))))
             ELSE AfterPricings(m, Tail(ps), [acc EXCEPT !.rng = after])

\* mc[i].greeks(): what the call does to the generator and to the instance (the
\* five sensitivities it returns are no part of the state).
McGreeks(i) ==
    /\ SingleThreaded
    /\ mc[i] # NoEngine
    /\ \E plan \in {GreeksPricings(mc[i])} :
       \E end \in {AfterPricings(mc[i], plan.pricings,
                                 [rng |-> rng, standard_error |-> mc[i].standard_error,
                                  last_price |-> mc[i].last_price,
                                  last_paths |-> mc[i].last_paths])} :
           /\ rng' = end.rng
           /\ mc' = [mc EXCEPT ![i].standard_error = end.standard_error,
                               ![i].last_price = end.last_price,
                               ![i].last_paths = end.last_paths]
           /\ mcret' = [op |-> "greeks", inst |-> i, raised |-> plan.raised]
    /\ UNCHANGED <<objVars, iv, threads>>

\* A thread enters price() on its instance.
ThreadEnter(t) ==
    /\ threads[t] = ThreadIdle
    /\ mc[InstanceOf(t)] # NoEngine
    /\ threads' = [threads EXCEPT ![t] = [pc |-> "seed"]]
    /\ UNCHANGED <<objVars, iv, rng, mc, mcret>>

\* if self.random_seed is not None: np.random.seed(self.random_seed)
ThreadSeed(t) ==
    /\ threads[t].pc = "seed"
    /\ rng' = RngAfterSeeding(rng, mc[InstanceOf(t)].random_seed)
    /\ threads' = [threads EXCEPT ![t] = [pc |-> "draw"]]
    /\ UNCHANGED <<objVars, iv, mc, mcret>>

\* Z = np.random.standard_normal(...)
ThreadDraw(t) ==
    /\ threads[t].pc = "draw"
    /\ LET n == NumDraws(mc[InstanceOf(t)])
       IN  /\ threads' = [threads EXCEPT ![t] = [pc |-> "finish",
                                                 Z |-> StandardNormal(rng, n)]]
           /\ rng' = AfterDraws(rng, n)
    /\ UNCHANGED <<objVars, iv, mc, mcret>>

\* The rest of price(): paths, payoffs, price and standard error from the
\* thread's own Z.
ThreadFinish(t) ==
    /\ threads[t].pc = "finish"
    /\ \E i \in {InstanceOf(t)} : \E out \in {PriceOf(mc[i], threads[t].Z)} :
           /\ mc' = [mc EXCEPT ![i].standard_error = <<out.standard_error>>,
                               ![i].last_price = <<out.price>>,
                               ![i].last_paths = <<out.paths>>]
           /\ threads' = [threads EXCEPT ![t] = [pc |-> "done", result |-> out.price]]
    /\ UNCHANGED <<objVars, iv, rng, mcret>>

\* The caller takes the thread's result.
ThreadJoin(t) ==
    /\ threads[t].pc = "done"
    /\ threads' = [threads EXCEPT ![t] = ThreadIdle]
    /\ UNCHANGED <<objVars, iv, rng, mc, mcret>>

\* ------------------------------------------------------------------------
\* BinomialTreeModel: the Cox-Ross-Rubinstein lattice
\* ------------------------------------------------------------------------

\* x ** j for an integer j >= 0
RECURSIVE Pow(_, _)
Pow(x, j) == IF j = 0 THEN ONE ELSE Mul(x, Pow(x, j - 1))

\* dt, the factors u and d = 1/u, the risk-neutral probability p
\* (_calculate_risk_neutral_probability) and the one-step discount factor.
CRRParameters(o, num_steps) ==
    LET dt == Div(o.time_to_expiry, num_steps * ONE)
        u == Exp(Mul(o.volatility, Sqrt(dt)))
        d == Div(ONE, u)
    IN  [dt |-> dt, u |-> u, d |-> d,
         p |-> Div(Exp(Mul(o.risk_free_rate - o.dividend_yield, dt)) - d, u - d),
         discount |-> Exp(-Mul(o.risk_free_rate, dt))]

\* The stock tree for the lattice parameters c: tree[i][j] is the price after
\* j up moves and i - j down moves.
StockTreeOf(o, c, num_steps) ==
    [i \in 0 .. num_steps |->
       [j \in 0 .. i |-> Mul(Mul(o.spot_price, Pow(c.u, j)), Pow(c.d, i - j))]]

\* BinomialTreeModel._build_stock_tree
BuildStockTree(o, num_steps) == StockTreeOf(o, CRRParameters(o, num_steps), num_steps)

\* BinomialTreeModel._get_payoff
GetPayoff(o, stock_price) ==
    IF o.option_type = "call" THEN Max(stock_price - o.strike_price, 0)
    ELSE Max(o.strike_price - stock_price, 0)

\* The backward induction of price() on the lattice parameters c and the stock
\* tree: the payoffs at maturity, and below it the discounted risk-neutral
\* expectation of the next step, for AMERICAN exercise not less than the payoff
\* at the node.
RECURSIVE OptionTreeFrom(_, _, _, _, _)
OptionTreeFrom(o, c, stock_tree, num_steps, i) ==
    IF i = num_steps
    THEN [j \in 0 .. i |-> GetPayoff(o, stock_tree[i][j])]
    ELSE [j \in 0 .. i |->
            IF o.exercise_style = "american"
            THEN Max(Mul(c.discount,
                         Mul(c.p, OptionTreeFrom(o, c, stock_tree, num_steps, i + 1)[j + 1])
                           + Mul(ONE - c.p,
                                 OptionTreeFrom(o, c, stock_tree, num_steps, i + 1)[j])),
                     GetPayoff(o, stock_tree[i][j]))
            ELSE Mul(c.discount,
                     Mul(c.p, OptionTreeFrom(o, c, stock_tree, num_steps, i + 1)[j + 1])
                       + Mul(ONE - c.p,
                             OptionTreeFrom(o, c, stock_tree, num_steps, i + 1)[j]))]

\* The option values at time step i (option_tree[i, 0 .. i] of price()).
OptionTreeLevel(o, num_steps, i) ==
    OptionTreeFrom(o, CRRParameters(o, num_steps), BuildStockTree(o, num_steps),
                   num_steps, i)

\* BinomialTreeModel.price
BinomialPrice(o, num_steps) == OptionTreeLevel(o, num_steps, 0)[0]

\* Steps of the lattices that are priced.
MaxSteps == 3
LatticeSteps == 1 .. MaxSteps

\* Valid contracts offered for pricing (S = K = 10, T = 1).
PricingOptions ==
    { MakeOption(10 * ONE, 10 * ONE, ONE, sigma, r, ty, style, q) :
        sigma \in {ONE \div 10},
        r \in {-(ONE \div 20), ONE \div 20, ONE \div 5},
        ty \in OptionType, style \in ExerciseStyle,
        q \in {0, (3 * ONE) \div 100} }

\* ------------------------------------------------------------------------
\* NumericalGreeksCalculator: bump and revalue
\* ------------------------------------------------------------------------

\* ModelArgs with the seed left out of the Monte Carlo arguments.
ModelArgsWithoutSeed(e) ==
    IF "num_steps" \in DOMAIN e THEN <<e.num_steps>>
    ELSE IF "num_simulations" \in DOMAIN e
         THEN <<e.num_simulations, e.use_antithetic>>
         ELSE <<>>

\* NumericalGreeksCalculator._get_model_args: the constructor arguments after
\* the Option, found by the attributes the wrapped model has.
ModelArgs(e) ==
    IF "num_steps" \in DOMAIN e THEN <<e.num_steps>>
    ELSE IF "num_simulations" \in DOMAIN e
         THEN <<e.num_simulations, e.use_antithetic, e.random_seed>>
         ELSE <<>>

\* self.model.__class__(o, *args): the instance a constructor call builds
\* (positional arguments in the order of the constructor's parameters).
Construct(cls, args) ==
    CASE cls = "BinomialTreeModel" -> [cls |-> cls, num_steps |-> args[1]]
      [] cls = "MonteCarloModel" ->
            [cls |-> cls,
             num_simulations |-> IF Len(args) >= 1 THEN args[1] ELSE 10000,
             use_antithetic |-> IF Len(args) >= 2 THEN args[2] ELSE TRUE,
             random_seed |-> IF Len(args) >= 3 THEN args[3] ELSE DEFAULT_RANDOM_SEED,
             standard_error |-> NoValue]
      [] cls = "BlackScholesModel" -> [cls |-> cls]

\* The step of theta(): h = 1/365 of a year.
ThetaStep == ONE \div 365

\* ThetaRepricings that builds a second contract near expiry as well, with the
\* time to expiry left as it is.
ThetaRepricingsRebuilds(o) ==
    <<[greek |-> "theta", kind |-> "self", field |-> "", option |-> o],
      [greek |-> "theta", kind |-> "new", field |-> "time_to_expiry",
       option |-> [o EXCEPT !.time_to_expiry =
                       IF @ <= ThetaStep THEN @ ELSE @ - ThetaStep]]>>

\* The pricings of theta(): with original_T <= h the wrapped model's own
\* price() alone; otherwise that and the price of a model on an Option with
\* time_to_expiry = original_T - h.
ThetaRepricings(o) ==
    IF o.time_to_expiry <= ThetaStep
    THEN <<[greek |-> "theta", kind |-> "self", field |-> "", option |-> o]>>
    ELSE <<[greek |-> "theta", kind |-> "self", field |-> "", option |-> o],
           [greek |-> "theta", kind |-> "new", field |-> "time_to_expiry",
            option |-> [o EXCEPT !.time_to_expiry = @ - ThetaStep]]>>

\* The pricings calculate_all_greeks() asks for on a model whose Option is o, in
\* the order delta, gamma, theta, vega, rho.  kind "self" is self.model.price();
\* kind "new" is price() of self.model.__class__(option, *_get_model_args()) on
\* an Option built from o.model_dump() with one field replaced.  Each method
\* builds its Options before it prices; vega's Option with volatility - 0.01
\* fails validation when that is not positive, which ends the call.
CalculatorRepricings(o) ==
    LET h_spot == Mul(o.spot_price, ONE \div 100)
        h_pct == ONE \div 100
        New(greek, field, v) ==
            [greek |-> greek, kind |-> "new", field |-> field,
             option |-> [o EXCEPT ![field] = v]]
        Self(greek) == [greek |-> greek, kind |-> "self", field |-> "", option |-> o]
        delta == <<New("delta", "spot_price", o.spot_price + h_spot),
                   New("delta", "spot_price", o.spot_price - h_spot)>>
        gamma == <<Self("gamma"),
                   New("gamma", "spot_price", o.spot_price + h_spot),
                   New("gamma", "spot_price", o.spot_price - h_spot)>>
        theta == ThetaRepricings(o)
        vega == <<New("vega", "volatility", o.volatility + h_pct),
                  New("vega", "volatility", o.volatility - h_pct)>>
        rho == <<New("rho", "risk_free_rate", o.risk_free_rate + h_pct),
                 New("rho", "risk_free_rate", o.risk_free_rate - h_pct)>>
        vega_valid == \A k \in 1 .. 2 : OptionValid(vega[k].option)
    IN  [pricings |-> IF vega_valid THEN delta \o gamma \o theta \o vega \o rho
                      ELSE delta \o gamma \o theta,
         raised |-> IF vega_valid THEN NoException ELSE PydanticValidationError]

\* MonteCarloModel.price as the engine sees it: the price returned, the
\* generator state left and the engine holding the new _standard_error.
McPriced(e, out) ==
    [price |-> out.price, rng |-> out.rng,
     engine |-> [e EXCEPT !.standard_error = <<out.standard_error>>]]

\* price() of engine e on Option o from generator state st: the price, the
\* generator state afterwards and the engine afterwards (only MonteCarloModel
\* touches the generator and keeps a standard error).
EngineValue(e, o, st) ==
    CASE e.cls = "BlackScholesModel" -> [price |-> BSPrice(o), rng |-> st, engine |-> e]
      [] e.cls = "BinomialTreeModel" ->
            [price |-> BinomialPrice(o, e.num_steps), rng |-> st, engine |-> e]
      [] e.cls = "MonteCarloModel" ->
            McPriced(e, PriceOutcome([option |-> o,
                                      num_simulations |-> e.num_simulations,
                                      use_antithetic |-> e.use_antithetic,
                                      random_seed |-> e.random_seed], st))

\* The generator state after k pricings by engine e or a model built like it,
\* from state st: every Monte Carlo pricing seeds (if it has a seed) and draws.
RECURSIVE RngAfterPricings(_, _, _)
RngAfterPricings(e, st, k) ==
    IF k = 0 \/ e.cls # "MonteCarloModel" THEN st
    ELSE AfterDraws(RngAfterSeeding(RngAfterPricings(e, st, k - 1), e.random_seed),
                    NumDraws(e))

\* The models the pricings ps of the calculator wrapping engine e run on: the
\* wrapped model itself, or a new instance of its class with its arguments.
PricingModels(e, ps) ==
    [k \in 1 .. Len(ps) |->
        IF ps[k].kind = "self" THEN e ELSE Construct(e.cls, ModelArgs(e))]

\* What the pricings ps give, made one after the other from generator state
\* st: each one's price, the generator state it leaves and the model it ran on
\* afterwards.
PricingOutcomes(e, ps, st) ==
    [k \in 1 .. Len(ps) |->
        EngineValue(PricingModels(e, ps)[k], ps[k].option,
                    RngAfterPricings(e, st, k - 1))]

\* The prices of the pricings ps, made one after the other from generator
\* state st.
PricingPrices(e, ps, st) ==
    [k \in 1 .. Len(ps) |-> PricingOutcomes(e, ps, st)[k].price]

\* The five sensitivities from the prices P of CalculatorRepricings(o), as
\* delta(), gamma(), theta(), vega() and rho() combine them.
CombineGreeks(o, P) ==
    LET h == Mul(o.spot_price, ONE \div 100)
        t == IF o.time_to_expiry <= ThetaStep THEN 0 ELSE 1
    IN  [delta |-> Div(P[1] - P[2], 2 * h),
         gamma |-> Div(P[4] - 2 * P[3] + P[5], Mul(h, h)),
         theta |-> IF t = 0 THEN Div(-P[6], ThetaStep)
                   ELSE Mul(Div(P[7] - P[6], ThetaStep), Mul(ThetaStep, 365 * ONE)),
         vega |-> Div(P[7 + t] - P[8 + t], 2 * ONE),
         rho |-> Div(P[9 + t] - P[10 + t], 2 * ONE)]

\* engine.price(): the engine prices the Option it was constructed on.
EnginePrice ==
    /\ engine # NoEngine
    /\ \E out \in {EngineValue(engine, option, rng)} :
           /\ rng' = out.rng
           /\ engine' = out.engine
           /\ last' = [op |-> "price", args |-> <<>>, raised |-> NoException,
                       value |-> out.price]
    /\ UNCHANGED <<option, built, perturbed, assigns, iv, mc, mcret, threads>>

\* The last of the pricings ps that is the wrapped model's own price().
LastSelfPricing(ps) ==
    CHOOSE k \in 1 .. Len(ps) :
        /\ ps[k].kind = "self"
        /\ \A j \in (k + 1) .. Len(ps) : ps[j].kind # "self"

\* The result of NumericalGreeksCalculator.calculate_all_greeks() on engine e
\* from generator state st, for the pricings of plan and their outcomes outs:
\* the pricings asked for and the models they ran on are kept with the result,
\* and the wrapped model is left as its last own price() left it.
CalculateAllGreeks(e, o, st, plan, outs) ==
    [raised |-> plan.raised,
     value |-> IF plan.raised = NoException
               THEN CombineGreeks(o, [k \in 1 .. Len(plan.pricings) |-> outs[k].price])
               ELSE <<>>,
     pricings |-> plan.pricings,
     models |-> PricingModels(e, plan.pricings),
     rng |-> RngAfterPricings(e, st, Len(plan.pricings)),
     engine |-> outs[LastSelfPricing(plan.pricings)].engine]

\* What engine e's greeks() does from generator state st: BlackScholesModel
\* evaluates its closed forms; BinomialTreeModel and MonteCarloModel delegate to
\* their NumericalGreeksCalculator.
GreeksOutcome(e, o, st) ==
    IF e.cls = "BlackScholesModel"
    THEN [raised |-> NoException, value |-> BSGreeks(o), pricings |-> <<>>,
          models |-> <<>>, rng |-> st, engine |-> e]
    ELSE CalculateAllGreeks(e, o, st, CalculatorRepricings(o),
                            PricingOutcomes(e, CalculatorRepricings(o).pricings, st))

\* engine.greeks()
EngineGreeks ==
    /\ engine # NoEngine
    /\ \E out \in {GreeksOutcome(engine, option, rng)} :
           /\ rng' = out.rng
           /\ engine' = out.engine
           /\ last' = [op |-> "greeks", args |-> <<>>, raised |-> out.raised,
                       pricings |-> out.pricings, models |-> out.models,
                       value |-> out.value]
    /\ UNCHANGED <<option, built, perturbed, assigns, iv, mc, mcret, threads>>

\* The base hook OptionPricingModel._get_additional_info, which no engine keeps.
NoAdditionalInfo(e, o, st) == [info |-> <<>>, rng |-> st, engine |-> e]

\* MonteCarloModel._get_additional_info on engine e at generator state st,
\* where again is what the price() inside get_confidence_interval() gives.
McAdditionalInfo(e, st, again) ==
    IF e.standard_error = NoValue
    THEN [info |-> [num_simulations |-> e.num_simulations * ONE,
                    use_antithetic |-> IF e.use_antithetic THEN ONE ELSE 0],
          rng |-> st, engine |-> e]
    ELSE [info |-> [num_simulations |-> e.num_simulations * ONE,
                    use_antithetic |-> IF e.use_antithetic THEN ONE ELSE 0,
                    standard_error |-> e.standard_error[1],
                    ci_95_lower |-> again.price
                        - Mul(NormPpf((ONE + (95 * ONE) \div 100) \div 2),
                              again.engine.standard_error[1]),
                    ci_95_upper |-> again.price
                        + Mul(NormPpf((ONE + (95 * ONE) \div 100) \div 2),
                              again.engine.standard_error[1])],
          rng |-> again.rng, engine |-> again.engine]

\* The engine's _get_additional_info() hook from generator state st: d1 and d2;
\* num_steps and dt; or, for MonteCarloModel, the simulation count and the
\* antithetic flag (as numbers) and, when a standard error is held, that
\* standard error and the bounds of get_confidence_interval(), which prices
\* once more.
AdditionalInfo(e, o, st) ==
    CASE e.cls = "BlackScholesModel" ->
            [info |-> [d1 |-> CalculateD1D2(o).d1, d2 |-> CalculateD1D2(o).d2],
             rng |-> st, engine |-> e]
      [] e.cls = "BinomialTreeModel" ->
            [info |-> [num_steps |-> e.num_steps * ONE,
                       dt |-> Div(o.time_to_expiry, e.num_steps * ONE)],
             rng |-> st, engine |-> e]
      [] e.cls = "MonteCarloModel" -> McAdditionalInfo(e, st, EngineValue(e, o, st))

\* engine.price_with_greeks(): price(), then greeks(), then the hook, packaged
\* as a PricingResult; an exception of greeks() propagates.
PriceWithGreeks ==
    /\ engine # NoEngine
    /\ \E priced \in {EngineValue(engine, option, rng)} :
       \E greeks \in {GreeksOutcome(priced.engine, option, priced.rng)} :
          IF greeks.raised # NoException
          THEN /\ rng' = greeks.rng
               /\ engine' = greeks.engine
               /\ last' = [op |-> "price_with_greeks", args |-> <<>>,
                           raised |-> greeks.raised]
          ELSE \E hook \in {AdditionalInfo(greeks.engine, option, greeks.rng)} :
                  /\ rng' = hook.rng
                  /\ engine' = hook.engine
                  /\ last' = [op |-> "price_with_greeks", args |-> <<>>,
                              raised |-> NoException,
                              value |-> [price |-> priced.price,
                                         greeks |-> greeks.value,
                                         method |-> engine.cls,
                                         additional_info |-> hook.info]]
    /\ UNCHANGED <<option, built, perturbed, assigns, iv, mc, mcret, threads>>

Init ==
    /\ option = NoOption
    /\ built = NoOption
    /\ perturbed = NoOption
    /\ engine = NoEngine
    /\ assigns = 0
    /\ last = [op |-> "none", args |-> <<>>, raised |-> NoException]
    /\ iv = IvIdle
    /\ rng = 0
    /\ mc = [i \in McIds |-> NoEngine]
    /\ mcret = NoReturn
    /\ threads = [t \in ThreadIds |-> ThreadIdle]

Next ==
    \/ \E f \in OptionInputs : NewOption(f)
    \/ \E field \in Fields : \E v \in FieldValues(field) : SetAttr(field, v)
    \/ \E field \in NumericFields : \E v \in FieldValues(field) : ModelDumpCopy(field, v)
    \/ NewBlackScholesModel
    \/ \E n \in NumSimulationsValues : \E anti \in BOOLEAN : \E seed \in SeedValues :
           NewMonteCarloModel(n, anti, seed)
    \/ \E n \in NumStepsValues : NewBinomialTreeModel(n)
    \/ Discard

Spec == Init /\ [][Next]_vars

NextIV ==
    \/ \E a \in IvInputs : ImpliedVolatility(a)
    \/ NewtonStep
    \/ NewtonExhausted
    \/ BisectionStep
    \/ BisectionExhausted
    \/ IvDone

SpecIV == Init /\ [][NextIV]_vars

\* ---- implied_volatility on Black-Scholes prices ----

\* Valid European contracts whose Black-Scholes price is handed back to the
\* solver (S = 10).
RoundTripOptions ==
    { MakeOption(10 * ONE, K, T, sigma, r, ty, "european", 0) :
        K \in {8 * ONE, 10 * ONE, 12 * ONE},
        T \in {ONE \div 4, ONE},
        sigma \in {ONE \div 10, (3 * ONE) \div 10},
        r \in {0, ONE \div 20},
        ty \in OptionType }

\* implied_volatility's arguments for the round trip of contract o: its
\* theoretical price as market_price, its own parameters, the default initial
\* guess and tolerance, and max_iterations.
RoundTripArgs(o, max_iterations) ==
    [spot_price |-> o.spot_price, strike_price |-> o.strike_price,
     time_to_expiry |-> o.time_to_expiry, risk_free_rate |-> o.risk_free_rate,
     market_price |-> BSPrice(o), option_type |-> o.option_type,
     dividend_yield |-> o.dividend_yield, initial_guess |-> IV_INITIAL_GUESS,
     tolerance |-> IV_SOLVER_TOLERANCE, max_iterations |-> max_iterations]

NextRoundTrip ==
    \/ \E o \in RoundTripOptions : \E n \in IvIterations :
           ImpliedVolatility(RoundTripArgs(o, n))
    \/ NewtonStep
    \/ NewtonExhausted
    \/ BisectionStep
    \/ BisectionExhausted
    \/ IvDone

SpecRoundTrip == Init /\ [][NextRoundTrip]_vars

\* numpy seeds its global generator from the operating system when it is
\* imported: any generator state.
InitMC ==
    /\ option = NoOption
    /\ built = NoOption
    /\ perturbed = NoOption
    /\ engine = NoEngine
    /\ assigns = 0
    /\ last = [op |-> "none", args |-> <<>>, raised |-> NoException]
    /\ iv = IvIdle
    /\ rng \in RngStates
    /\ mc = [i \in McIds |-> NoEngine]
    /\ mcret = NoReturn
    /\ threads = [t \in ThreadIds |-> ThreadIdle]

NextMC ==
    \/ \E i \in McIds : \E o \in McOptions : \E n \in McSimulations :
         \E anti \in BOOLEAN : \E seed \in McSeeds : McNew(i, o, n, anti, seed)
    \/ \E i \in McIds : McDrop(i)
    \/ \E i \in McIds : McPrice(i)
    \/ \E i \in McIds : McConfidenceInterval(i)
    \/ \E i \in McIds : McGreeks(i)

SpecMC == InitMC /\ [][NextMC]_vars

NextMCThreads ==
    \/ \E i \in McIds : \E o \in McOptions : \E n \in McSimulations :
         \E anti \in BOOLEAN : \E seed \in McSeeds : McNew(i, o, n, anti, seed)
    \/ \E i \in McIds : McDrop(i)
    \/ \E t \in ThreadIds : ThreadEnter(t)
    \/ \E t \in ThreadIds : ThreadSeed(t)
    \/ \E t \in ThreadIds : ThreadDraw(t)
    \/ \E t \in ThreadIds : ThreadFinish(t)
    \/ \E t \in ThreadIds : ThreadJoin(t)

SpecMCThreads == InitMC /\ [][NextMCThreads]_vars

\* One instance over a range of simulation counts, even and odd.
McSizes == 2 .. 5

NextMCSizes ==
    \/ \E n \in McSizes : \E anti \in BOOLEAN : \E seed \in McSeeds :
         McNew("a", McOption("call", "european"), n, anti, seed)
    \/ McDrop("a")
    \/ McPrice("a")

SpecMCSizes == InitMC /\ [][NextMCSizes]_vars

\* Engines over a valid contract the caller holds.
InitPricing ==
    /\ option \in PricingOptions
    /\ built = option
    /\ perturbed = NoOption
    /\ engine = NoEngine
    /\ assigns = 0
    /\ last = [op |-> "Option", args |-> option, raised |-> NoException]
    /\ iv = IvIdle
    /\ rng = 0
    /\ mc = [i \in McIds |-> NoEngine]
    /\ mcret = NoReturn
    /\ threads = [t \in ThreadIds |-> ThreadIdle]

NextPricing ==
    \/ NewBlackScholesModel
    \/ \E n \in LatticeSteps : NewBinomialTreeModel(n)
    \/ \E n \in McSimulations : \E seed \in SeedValues : NewMonteCarloModel(n, TRUE, seed)
    \/ EnginePrice
    \/ EngineGreeks
    \/ PriceWithGreeks

SpecPricing == InitPricing /\ [][NextPricing]_vars

\* ---- Black-Scholes pricing of a grid of valid European contracts ----

EuropeanOptions ==
    { MakeOption(S, K, T, sigma, r, ty, "european", q) :
        S \in {8 * ONE, 10 * ONE, 12 * ONE},
        K \in {10 * ONE},
        T \in {ONE \div 25, ONE \div 4, ONE, 2 * ONE},
        sigma \in {ONE \div 10, (3 * ONE) \div 10},
        r \in {-(ONE \div 20), 0, ONE \div 20},
        ty \in OptionType,
        q \in {0, (3 * ONE) \div 100} }

\* ---- Bump and revalue near expiry and at low volatility ----

\* Valid contracts (S = K = 10) from two days to three months before expiry,
\* with volatilities from 0.5% to 10%.
CalculatorOptions ==
    { MakeOption(10 * ONE, 10 * ONE, T, sigma, ONE \div 20, ty, style, 0) :
        T \in {ONE \div 500, ThetaStep, ONE \div 100, ONE \div 4},
        sigma \in {ONE \div 200, ONE \div 100, ONE \div 50, ONE \div 10},
        ty \in OptionType, style \in ExerciseStyle }

InitCalculator ==
    /\ option \in CalculatorOptions
    /\ built = option
    /\ perturbed = NoOption
    /\ engine = NoEngine
    /\ assigns = 0
    /\ last = [op |-> "Option", args |-> option, raised |-> NoException]
    /\ iv = IvIdle
    /\ rng = 0
    /\ mc = [i \in McIds |-> NoEngine]
    /\ mcret = NoReturn
    /\ threads = [t \in ThreadIds |-> ThreadIdle]

NextCalculator ==
    \/ \E n \in LatticeSteps : NewBinomialTreeModel(n)
    \/ \E n \in McSimulations : \E seed \in SeedValues : NewMonteCarloModel(n, TRUE, seed)
    \/ EngineGreeks

SpecCalculator == InitCalculator /\ [][NextCalculator]_vars

InitEuropean ==
    /\ option \in EuropeanOptions
    /\ built = option
    /\ perturbed = NoOption
    /\ engine = NoEngine
    /\ assigns = 0
    /\ last = [op |-> "Option", args |-> option, raised |-> NoException]
    /\ iv = IvIdle
    /\ rng = 0
    /\ mc = [i \in McIds |-> NoEngine]
    /\ mcret = NoReturn
    /\ threads = [t \in ThreadIds |-> ThreadIdle]

NextEuropean ==
    \/ NewBlackScholesModel
    \/ EnginePrice
    \/ EngineGreeks

SpecEuropean == InitEuropean /\ [][NextEuropean]_vars

\* ------------------------------------------------------------------------
\* Properties
\* ------------------------------------------------------------------------

\* The bounds the data model states for the numeric fields of an Option.
WithinBounds(f) ==
    /\ f.spot_price > 0
    /\ f.strike_price > 0
    /\ f.time_to_expiry > 0
    /\ f.volatility > 0
    /\ f.dividend_yield >= 0

\* C1: every Option in existence is within the bounds of its numeric fields and
\* still holds the field values it was constructed with.
C1_OptionsStayValidAndUnchanged ==
    /\ option # NoOption => WithinBounds(option) /\ option = built
    /\ perturbed # NoOption => WithinBounds(perturbed)

\* C2: constructing an Option raises a validation error and yields no Option
\* exactly when a numeric field is outside its bounds; the sign of
\* risk_free_rate never matters.
C2_ConstructionValidatesEagerly ==
    last.op = "Option" =>
        /\ last.raised = PydanticValidationError <=> ~WithinBounds(last.args)
        /\ last.raised = PydanticValidationError => option = NoOption
        /\ last.raised = NoException => option = last.args

\* C2 witness: a construction with time_to_expiry = 0, every other field within
\* its bounds and a negative rate, has failed.
C2_Witness ==
    /\ last.op = "Option"
    /\ last.raised = PydanticValidationError
    /\ last.args.time_to_expiry = 0
    /\ last.args.spot_price > 0 /\ last.args.strike_price > 0
    /\ last.args.volatility > 0 /\ last.args.dividend_yield >= 0
    /\ last.args.risk_free_rate < 0
    /\ option = NoOption

\* C3: BlackScholesModel and MonteCarloModel constructed on an Option that is
\* not EUROPEAN raise InvalidOptionError and hand no instance to the caller;
\* BinomialTreeModel constructs for either style.
C3_EuropeanOnlyEngines ==
    /\ (last.op \in {"BlackScholesModel", "MonteCarloModel"}
            /\ option.exercise_style # "european")
          => last.raised = "InvalidOptionError" /\ engine = NoEngine
    /\ last.op = "BinomialTreeModel"
          => last.raised = NoException /\ engine.cls = "BinomialTreeModel"

\* C3 witness: a MonteCarloModel constructor was called with an AMERICAN
\* contract and raised.
C3_Witness ==
    /\ last.op = "MonteCarloModel"
    /\ option.exercise_style = "american"
    /\ last.raised = "InvalidOptionError"
    /\ engine = NoEngine

\* The intrinsic present value of the contract of call arguments a:
\* max(S*e^(-qT) - K*e^(-rT), 0) for a call, max(K*e^(-rT) - S*e^(-qT), 0) for a put.
IntrinsicPresentValue(a) ==
    LET pv_S == Mul(a.spot_price, Exp(-Mul(a.dividend_yield, a.time_to_expiry)))
        pv_K == Mul(a.strike_price, Exp(-Mul(a.risk_free_rate, a.time_to_expiry)))
    IN  IF a.option_type = "call" THEN Max(pv_S - pv_K, 0) ELSE Max(pv_K - pv_S, 0)

\* C4: a value returned by implied_volatility reproduces the market price: the
\* Black-Scholes price at the returned volatility is within the tolerance of
\* market_price.
C4_ReturnedVolatilityReproducesPrice ==
    iv.pc = "returned" =>
        Abs(BSPrice(TrialOption(iv.args, iv.result)) - iv.args.market_price)
            < iv.args.tolerance

\* C5: a call whose market_price is <= the intrinsic present value, or <= 0, has
\* raised ImpliedVolatilityError without building a trial Option and without
\* entering Newton-Raphson or bisection.
C5_PreconditionFailsImmediately ==
    (iv.pc # "idle"
        /\ (iv.args.market_price <= IntrinsicPresentValue(iv.args)
              \/ iv.args.market_price <= 0))
      => /\ iv.pc = "raised"
         /\ iv.raised = "ImpliedVolatilityError"
         /\ iv.trials = 0
         /\ iv.newton_runs = 0
         /\ iv.bisection_runs = 0

\* C6: once Newton-Raphson has failed with ImpliedVolatilityError, bisection has
\* been entered exactly once with the same observables, tolerance and iteration
\* budget, the value returned is the one bisection returned, and the only
\* ImpliedVolatilityError of the iterative phase that reaches the caller is the
\* one of bisection.
C6_NewtonFailureFallsBackToBisection ==
    /\ (iv.pc # "idle" /\ iv.newton_error # "none") =>
          /\ iv.bisection_runs = 1
          /\ iv.bis_args.spot = iv.args.spot_price
          /\ iv.bis_args.strike = iv.args.strike_price
          /\ iv.bis_args.time = iv.args.time_to_expiry
          /\ iv.bis_args.rate = iv.args.risk_free_rate
          /\ iv.bis_args.target_price = iv.args.market_price
          /\ iv.bis_args.option_type = iv.args.option_type
          /\ iv.bis_args.div_yield = iv.args.dividend_yield
          /\ iv.bis_args.tolerance = iv.args.tolerance
          /\ iv.bis_args.max_iter = iv.args.max_iterations
          /\ iv.pc = "returned" =>
                iv.returned_by \in {"bisection_tolerance", "bisection_bracket"}
          /\ iv.pc = "raised" => iv.detail = "bisection_max_iterations"
    /\ (iv.pc = "raised" /\ iv.raised = "ImpliedVolatilityError" /\ iv.newton_runs > 0) =>
          iv.bisection_runs = 1 /\ iv.detail = "bisection_max_iterations"

\* C6 witness: Newton-Raphson failed on a negligible vega and the call returned
\* the value of the bisection that followed.
C6_Witness ==
    /\ iv.pc = "returned"
    /\ iv.newton_error = "vega"
    /\ iv.newton_runs = 1
    /\ iv.bisection_runs = 1
    /\ iv.returned_by = "bisection_tolerance"

McConfig(m) == <<m.option, m.num_simulations, m.use_antithetic, m.random_seed>>

\* C8: with a seed, the price a price() call returns depends on the contract,
\* num_simulations, use_antithetic and random_seed alone: two instances that
\* agree on these and have both been priced hold the identical price, and that
\* price is the same from every generator state the calls in between (price(),
\* greeks(), get_confidence_interval(), on either instance) can leave behind.
C8_SeededPriceReproducible ==
    /\ \A i, j \in McIds :
         (/\ mc[i] # NoEngine /\ mc[j] # NoEngine
          /\ mc[i].random_seed # NoSeed
          /\ McConfig(mc[i]) = McConfig(mc[j])
          /\ mc[i].last_price # NoValue /\ mc[j].last_price # NoValue)
         => mc[i].last_price = mc[j].last_price
    /\ (/\ mcret.op = "price"
        /\ mc[mcret.inst].random_seed # NoSeed)
       => \A st \in RngStates : mcret.value = PriceOutcome(mc[mcret.inst], st).price

\* Two distinct instances with equal seeded configuration have both been priced,
\* the second by the price() call that has just returned, from a generator state
\* other than the one the seed sets (so seeding made the difference).
C8_Witness ==
    /\ mc["a"] # NoEngine /\ mc["b"] # NoEngine
    /\ mc["a"].random_seed # NoSeed
    /\ McConfig(mc["a"]) = McConfig(mc["b"])
    /\ mc["a"].last_price # NoValue /\ mc["b"].last_price # NoValue
    /\ mcret.op = "price" /\ mcret.inst = "b"
    /\ mc["a"].last_price = <<mcret.value>>
    /\ \E st \in RngStates :
         PriceOf(mc["b"], StandardNormal(st, NumDraws(mc["b"]))).price # mcret.value

\* C9: when two threads price independent seeded instances concurrently, each
\* finished call holds the price its instance gives when the call runs alone.
C9_ConcurrentCallsDoNotInterfere ==
    \A t \in ThreadIds :
       (/\ threads[t].pc = "done"
        /\ \A i \in McIds : mc[i] # NoEngine /\ mc[i].random_seed # NoSeed)
       => \A st \in RngStates :
            threads[t].result = PriceOutcome(mc[InstanceOf(t)], st).price

\* C10: a price() call on a seeded instance leaves the draws that a price() call
\* on another, unseeded instance would use as they were.
C10_SamplingStateIsCallLocal ==
    [][\A i, j \in McIds :
         (/\ i # j
          /\ mc[i] # NoEngine /\ mc[i].random_seed # NoSeed
          /\ mc[j] # NoEngine /\ mc[j].random_seed = NoSeed
          /\ McPrice(i))
         => StandardNormal(RngAfterSeeding(rng', mc[j].random_seed), NumDraws(mc[j]))
              = StandardNormal(RngAfterSeeding(rng, mc[j].random_seed), NumDraws(mc[j]))]_vars


\* C11: the bounds get_confidence_interval() returns have the price that the
\* preceding price() call on the same instance returned strictly between them
\* (lower < price < upper, so the width is not zero).
C11_PriceInsideItsInterval ==
    (mcret.op = "get_confidence_interval" /\ mcret.prior # NoValue)
       => /\ mcret.value[1] < mcret.prior[1]
          /\ mcret.prior[1] < mcret.value[2]


\* C12: after price() on an instance with use_antithetic, the number of terminal
\* values priced (and payoffs averaged) is num_simulations, the M whose square
\* root divides the standard error, and it is twice the number of values drawn.
C12_AntitheticKeepsSampleSize ==
    \A i \in McIds :
       (mc[i] # NoEngine /\ mc[i].use_antithetic /\ mc[i].last_paths # NoValue)
       => /\ Len(mc[i].last_paths[1]) = mc[i].num_simulations
          /\ Len(mc[i].last_paths[1]) = 2 * NumDraws(mc[i])


\* The contract o with EUROPEAN exercise.
EuropeanTwin(o) == [o EXCEPT !.exercise_style = "european"]

\* C13: when a lattice engine has priced an AMERICAN contract, at every node of
\* the lattice the value is at least the value of the EUROPEAN contract with the
\* same parameters and steps (so the price is), and for a call with
\* dividend_yield = 0 the two prices differ by at most 0.01.
C13_AmericanAtLeastEuropean ==
    (/\ last.op = "price"
     /\ engine.cls = "BinomialTreeModel"
     /\ option.exercise_style = "american")
    => LET n == engine.num_steps
       IN  /\ \A i \in 0 .. n : \A j \in 0 .. i :
                OptionTreeLevel(option, n, i)[j]
                   >= OptionTreeLevel(EuropeanTwin(option), n, i)[j]
           /\ last.value >= BinomialPrice(EuropeanTwin(option), n)
           /\ (option.option_type = "call" /\ option.dividend_yield = 0)
                => Abs(last.value - BinomialPrice(EuropeanTwin(option), n)) <= ONE \div 100


\* The field each sensitivity perturbs.
PerturbedField(greek) ==
    CASE greek \in {"delta", "gamma"} -> "spot_price"
      [] greek = "theta" -> "time_to_expiry"
      [] greek = "vega" -> "volatility"
      [] greek = "rho" -> "risk_free_rate"

\* The class and constructor arguments of engine e, without what its pricings
\* left on it.
Configuration(e) ==
    IF e.cls = "MonteCarloModel" THEN [e EXCEPT !.standard_error = NoValue] ELSE e

\* C14: after greeks() through the NumericalGreeksCalculator, every pricing of a
\* perturbed contract ran on a new model of the wrapped model's class and
\* configuration, on an Option that differs from the wrapped model's Option in
\* exactly the field its sensitivity perturbs; the wrapped model's Option is the
\* one it was built with.
C14_RepricingOnSameEngineOneFieldChanged ==
    (last.op = "greeks" /\ engine.cls # "BlackScholesModel") =>
        /\ \A k \in 1 .. Len(last.pricings) :
              last.pricings[k].kind = "new" =>
                 /\ Configuration(last.models[k]) = Configuration(engine)
                 /\ {f \in Fields : last.pricings[k].option[f] # option[f]}
                       = {PerturbedField(last.pricings[k].greek)}
        /\ \E k \in 1 .. Len(last.pricings) : last.pricings[k].kind = "new"
        /\ option = built

\* C14 witness: greeks() has returned on a Monte Carlo engine whose seed is not
\* the constructor's default, after all eleven pricings.
C14_Witness ==
    /\ last.op = "greeks"
    /\ last.raised = NoException
    /\ engine.cls = "MonteCarloModel"
    /\ engine.random_seed = NoSeed
    /\ Len(last.pricings) = 11
    /\ last.models[1].random_seed = NoSeed


\* C15: for time_to_expiry > h the theta that greeks() returns through the
\* NumericalGreeksCalculator is the one-day price change V(T-h) - V(T) (a
\* per-calendar-day figure), V being the engine's price.  Stated for engines
\* whose price does not depend on the generator state.
C15_ThetaIsPerCalendarDay ==
    (/\ last.op = "greeks"
     /\ engine.cls # "BlackScholesModel"
     /\ last.raised = NoException
     /\ option.time_to_expiry > ThetaStep
     /\ engine.cls = "MonteCarloModel" => engine.random_seed # NoSeed)
    => LET later == [option EXCEPT !.time_to_expiry = @ - ThetaStep]
           one_day == EngineValue(engine, later, rng).price
                         - EngineValue(engine, option, rng).price
       IN  Abs(last.value.theta - one_day) <= ONE \div 1000


\* The keys of additional_info for each engine class.
InfoKeys(cls) ==
    CASE cls = "BlackScholesModel" -> {"d1", "d2"}
      [] cls = "BinomialTreeModel" -> {"num_steps", "dt"}
      [] cls = "MonteCarloModel" ->
            {"num_simulations", "use_antithetic", "standard_error",
             "ci_95_lower", "ci_95_upper"}

\* C16: the PricingResult of price_with_greeks() names the engine's class as its
\* method and carries the engine's additional-info keys (for Monte Carlo always
\* with the standard error and the interval bounds); for an engine whose results
\* do not depend on the generator state, its price is the engine's price(), its
\* greeks are the engine's greeks() and its additional_info is what the hook
\* gives for the engine as the call left it.
C16_PricingResultPackagesEngineResults ==
    (last.op = "price_with_greeks" /\ last.raised = NoException) =>
        /\ last.value.method = engine.cls
        /\ DOMAIN last.value.additional_info = InfoKeys(engine.cls)
        /\ (engine.cls = "MonteCarloModel" => engine.random_seed # NoSeed)
             => /\ last.value.price = EngineValue(engine, option, rng).price
                /\ last.value.greeks = GreeksOutcome(engine, option, rng).value
                /\ last.value.additional_info = AdditionalInfo(engine, option, rng).info

\* C16 witness: price_with_greeks() has returned on a seeded Monte Carlo engine
\* with a standard error above zero and the interval around the price.
C16_Witness ==
    /\ last.op = "price_with_greeks"
    /\ last.raised = NoException
    /\ engine.cls = "MonteCarloModel"
    /\ engine.random_seed # NoSeed
    /\ last.value.additional_info.standard_error > 0
    /\ last.value.additional_info.ci_95_lower < last.value.price
    /\ last.value.price < last.value.additional_info.ci_95_upper

\* C17: a malformed contract is reported at construction as the package's
\* ValidationError and an engine/contract mismatch as InvalidOptionError, a
\* subtype of it: a handler for the package's ValidationError catches every
\* failure of Option(...) and of an engine constructor.
C17_PackageValidationErrorCoversBoth ==
    (/\ last.op \in {"Option", "BlackScholesModel", "MonteCarloModel", "BinomialTreeModel"}
     /\ last.raised # NoException)
    => Catches(PackageValidationError, last.raised)

\* C18: whenever implied_volatility fails, the exception that leaves the call is
\* an ImpliedVolatilityError.
C18_EveryFailureIsImpliedVolatilityError ==
    iv.pc = "raised" => Catches("ImpliedVolatilityError", iv.raised)

\* The same contract with the other option type.
OtherType(o) ==
    [o EXCEPT !.option_type = IF @ = "call" THEN "put" ELSE "call"]

\* call price minus put price for the parameters of o, o priced at v
CallMinusPut(o, v) ==
    IF o.option_type = "call" THEN v - BSPrice(OtherType(o)) ELSE BSPrice(OtherType(o)) - v

\* C19: for a valid European contract the BlackScholesModel call price minus the
\* put price on the same parameters is spot * e^(-q T) - strike * e^(-r T)
\* within 1e-2.
C19_PutCallParity ==
    (last.op = "price" /\ engine.cls = "BlackScholesModel")
    => Abs(CallMinusPut(option, last.value)
           - (Mul(option.spot_price,
                  Exp(-Mul(option.dividend_yield, option.time_to_expiry)))
              - Mul(option.strike_price,
                    Exp(-Mul(option.risk_free_rate, option.time_to_expiry)))))
         <= ONE \div 100

\* C19 witness: a put with a dividend yield and a positive rate has been priced
\* above zero, away from the money.
C19_Witness ==
    /\ last.op = "price"
    /\ engine.cls = "BlackScholesModel"
    /\ option.option_type = "put"
    /\ option.dividend_yield > 0
    /\ option.risk_free_rate > 0
    /\ option.spot_price # option.strike_price
    /\ last.value > 0

\* C20: for a valid European contract priced by BlackScholesModel at its
\* volatility sigma, implied_volatility called with that price and the same
\* parameters (default guess, tolerance and iteration limit) returns a
\* volatility within 1e-4 of sigma.
C20_ImpliedVolatilityRoundTrip ==
    \A o \in RoundTripOptions :
        (/\ iv.pc = "returned"
         /\ iv.args = RoundTripArgs(o, IV_SOLVER_MAX_ITERATIONS))
        => Abs(iv.result - o.volatility) <= ONE \div 10000

\* C21: BlackScholesModel.gamma() and vega() do not depend on option_type: the
\* greeks() of a contract carry the gamma and the vega of the contract that
\* differs from it in option_type only.
C21_GammaVegaSameForCallAndPut ==
    (last.op = "greeks" /\ engine.cls = "BlackScholesModel")
    => /\ last.value.gamma = BSGamma(OtherType(option))
       /\ last.value.vega = BSVega(OtherType(option))

\* C21 witness: greeks() has returned for a put with gamma and vega above zero.
C21_Witness ==
    /\ last.op = "greeks"
    /\ engine.cls = "BlackScholesModel"
    /\ option.option_type = "put"
    /\ last.value.gamma > 0
    /\ last.value.vega > 0

\* C22: for a valid European contract the Black-Scholes delta is strictly
\* between 0 and 1 for a call and strictly between -1 and 0 for a put, gamma
\* and vega are above zero, and rho is above zero for a call and below zero
\* for a put.
C22_GreeksSigns ==
    (last.op = "greeks" /\ engine.cls = "BlackScholesModel")
    => /\ option.option_type = "call"
            => (0 < last.value.delta /\ last.value.delta < ONE /\ last.value.rho > 0)
       /\ option.option_type = "put"
            => (-ONE < last.value.delta /\ last.value.delta < 0 /\ last.value.rho < 0)
       /\ last.value.gamma > 0
       /\ last.value.vega > 0


\* The states of a call that is in, or has come out of, _bisection_method.
InBisection ==
    \/ iv.pc = "bisection"
    \/ iv.pc = "returned" /\ iv.returned_by \in {"bisection_tolerance", "bisection_bracket"}
    \/ iv.pc = "raised" /\ iv.detail = "bisection_max_iterations"

\* The bracket stays inside [IV_MIN_VALUE, IV_MAX_VALUE]; a return is the
\* midpoint of the last bracket, priced within tolerance or bounding a bracket
\* narrower than tolerance; the error comes after max_iter iterations, none of
\* which met a stop condition.
BisectionState ==
    InBisection =>
        /\ IV_MIN_VALUE <= iv.vol_low /\ iv.vol_low <= iv.vol_high
        /\ iv.vol_high <= IV_MAX_VALUE
        /\ (iv.pc = "returned" /\ iv.returned_by = "bisection_tolerance") =>
               /\ iv.result = (iv.vol_low + iv.vol_high) \div 2
               /\ Abs(BSPrice(TrialOption(iv.args, iv.result)) - iv.args.market_price)
                      < iv.args.tolerance
        /\ (iv.pc = "returned" /\ iv.returned_by = "bisection_bracket") =>
               /\ iv.result \in {iv.vol_low, iv.vol_high}
               /\ iv.vol_high - iv.vol_low < iv.args.tolerance
        /\ iv.pc = "raised" =>
               /\ iv.raised = "ImpliedVolatilityError"
               /\ iv.i = iv.args.max_iterations
               /\ iv.vol_high - iv.vol_low >= iv.args.tolerance

\* An iteration that moves an end of the bracket moves it to the midpoint: the
\* new width is half the old one (to the last digit carried).
BisectionHalves ==
    (/\ iv.pc = "bisection"
     /\ \/ iv'.pc = "bisection" /\ iv'.i = iv.i + 1
        \/ iv'.pc = "returned" /\ iv'.returned_by = "bisection_bracket")
    => /\ 2 * (iv'.vol_high - iv'.vol_low) - (iv.vol_high - iv.vol_low) \in {-1, 0, 1}
       /\ \/ iv'.vol_low = iv.vol_low /\ iv'.vol_high = (iv.vol_low + iv.vol_high) \div 2
          \/ iv'.vol_high = iv.vol_high /\ iv'.vol_low = (iv.vol_low + iv.vol_high) \div 2

\* C23: bisection starts from [0.001, 5.0]; every iteration prices the midpoint,
\* returns it when its price is within tolerance, and otherwise moves one end of
\* the bracket to the midpoint, so that 0.001 <= vol_low <= vol_high <= 5.0
\* always and the width halves with every iteration; it returns the midpoint
\* once the width is below tolerance, and raises ImpliedVolatilityError only
\* after max_iterations iterations none of which met a stop condition.
C23_BisectionBracket == []BisectionState /\ [][BisectionHalves]_vars

C23_Witness ==
    /\ iv.pc = "returned" /\ iv.returned_by = "bisection_bracket"
    /\ iv.i >= 10
    /\ iv.vol_low > IV_MIN_VALUE /\ iv.vol_high < IV_MAX_VALUE

\* Newton-Raphson starts at initial_guess, and a value it returns is the trial
\* volatility it has just priced within tolerance of the target.
NewtonState ==
    /\ (iv.pc = "newton" /\ iv.i = 0) => iv.vol = iv.args.initial_guess
    /\ (iv.pc = "returned" /\ iv.returned_by = "newton") =>
           /\ iv.result = iv.vol
           /\ OptionValid(TrialOption(iv.args, iv.result))
           /\ Abs(BSPrice(TrialOption(iv.args, iv.result)) - iv.args.market_price)
                  < iv.args.tolerance

\* The trial volatility of the state is priced within tolerance of the target.
NewtonConverged ==
    Abs(BSPrice(TrialOption(iv.args, iv.vol)) - iv.args.market_price) < iv.args.tolerance

\* What a step of _newton_raphson leads to: ImpliedVolatilityError exactly when
\* the iterations are used up, or the trial volatility is not converged and its
\* vega is negligible; the trial volatility exactly when it is converged.
NewtonOutcome ==
    (iv.pc = "newton" /\ iv' # iv) =>
        LET valid == OptionValid(TrialOption(iv.args, iv.vol))
            used_up == iv.i >= iv.args.max_iterations
            flat == Abs(BSVega(TrialOption(iv.args, iv.vol))) < VEGA_NEGLIGIBLE
        IN  /\ iv'.newton_error = "max_iterations" <=> used_up
            /\ iv'.newton_error = "vega" <=>
                   (~used_up /\ valid /\ ~NewtonConverged /\ flat)
            /\ iv'.pc = "returned" <=> (~used_up /\ valid /\ NewtonConverged)
            /\ iv'.pc = "returned" => (iv'.returned_by = "newton" /\ iv'.result = iv.vol)
            /\ iv'.trials = iv.trials + (IF used_up \/ ~valid THEN 0 ELSE 1)

\* C24: Newton-Raphson starts from initial_guess, prices a fresh trial contract
\* in every iteration, returns the trial volatility as soon as its price is
\* within tolerance of the target, and raises ImpliedVolatilityError exactly when
\* the vega of a non-converged trial volatility is negligible or max_iterations
\* iterations have completed; it never returns a volatility whose price is not
\* within tolerance.
C24_NewtonRaphson == []NewtonState /\ [][NewtonOutcome]_vars

C24_Witness ==
    /\ iv.pc = "returned" /\ iv.returned_by = "newton"
    /\ iv.i >= 1
    /\ iv.args.initial_guess # IV_INITIAL_GUESS

\* C25: in Newton-Raphson the trial volatility is clamped into [0.001, 5.0]
\* after every update, so every trial contract of the second or a later
\* iteration has a volatility within [IV_MIN_VALUE, IV_MAX_VALUE].
C25_NewtonTrialClamped ==
    (iv.pc = "newton" /\ iv.i >= 1) =>
        (IV_MIN_VALUE <= iv.vol /\ iv.vol <= IV_MAX_VALUE)

C25_Witness ==
    /\ iv.pc = "newton" /\ iv.i >= 1 /\ iv.i < iv.args.max_iterations
    /\ iv.vol = IV_MAX_VALUE

\* Each method runs at most once per call and prices at most max_iterations
\* trial contracts.
IvBudget ==
    iv.pc # "idle" =>
        /\ iv.newton_runs <= 1 /\ iv.bisection_runs <= 1
        /\ iv.i <= iv.args.max_iterations
        /\ iv.pc = "newton" => iv.trials = iv.i
        /\ iv.pc = "bisection" => iv.trials <= iv.newton_runs * iv.args.max_iterations + iv.i
        /\ iv.trials <= (iv.newton_runs + iv.bisection_runs) * iv.args.max_iterations
        /\ iv.trials <= 2 * iv.args.max_iterations

\* The steps a call can still take before it returns or raises: the iterations
\* left in the running method and its exit, and those of the fallback.
IvRemaining(s) ==
    IF s.pc = "newton" THEN 2 * s.args.max_iterations + 2 - s.i
    ELSE IF s.pc = "bisection" THEN s.args.max_iterations + 1 - s.i
    ELSE 0

\* Every step of a running call ends it or uses up one of the steps left.
IvProgress ==
    (iv.pc \in {"newton", "bisection"} /\ iv' # iv) =>
        /\ iv'.pc \in {"newton", "bisection", "returned", "raised"}
        /\ IvRemaining(iv') >= 0
        /\ IvRemaining(iv') < IvRemaining(iv)

\* C26: every call of implied_volatility terminates within its budget: at most
\* max_iterations trial contracts are priced by Newton-Raphson and at most
\* max_iterations by bisection, and then the call returns or raises.
C26_TerminatesWithinBudget == []IvBudget /\ [][IvProgress]_vars

C26_Witness ==
    /\ iv.pc = "raised" /\ iv.detail = "bisection_max_iterations"
    /\ iv.newton_runs = 1 /\ iv.bisection_runs = 1
    /\ iv.trials = 2 * iv.args.max_iterations

\* The pricings of theta() among those of the last greeks().
ThetaPricings == SelectSeq(last.pricings, LAMBDA p : p.greek = "theta")

\* C27: NumericalGreeksCalculator.theta(h) never builds a contract with a
\* non-positive time to expiry: with T <= h it prices the unperturbed contract
\* once, builds no perturbed contract and returns -V(T)/h; otherwise its single
\* perturbed contract has T - h > 0.
C27_ThetaNeverPastExpiry ==
    (last.op = "greeks" /\ engine.cls # "BlackScholesModel") =>
        /\ \A k \in 1 .. Len(ThetaPricings) :
               /\ ThetaPricings[k].option.time_to_expiry > 0
               /\ OptionValid(ThetaPricings[k].option)
        /\ option.time_to_expiry <= ThetaStep =>
               /\ Len(ThetaPricings) = 1
               /\ ThetaPricings[1].kind = "self" /\ ThetaPricings[1].option = option
               /\ (last.raised = NoException /\ engine.cls = "BinomialTreeModel") =>
                      last.value.theta =
                          Div(-BinomialPrice(option, engine.num_steps), ThetaStep)
        /\ option.time_to_expiry > ThetaStep =>
               /\ Len(ThetaPricings) = 2
               /\ ThetaPricings[1].kind = "self" /\ ThetaPricings[1].option = option
               /\ ThetaPricings[2].kind = "new"
               /\ ThetaPricings[2].option =
                      [option EXCEPT !.time_to_expiry = @ - ThetaStep]

C27_Witness ==
    /\ last.op = "greeks" /\ engine.cls = "BinomialTreeModel"
    /\ last.raised = NoException
    /\ option.time_to_expiry = ThetaStep
    /\ Len(ThetaPricings) = 1
    /\ last.value.theta < 0

\* C28: for every valid Option every perturbed contract the calculator builds
\* (S +/- 1% of S, T - h, sigma +/- 0.01, r +/- 0.01) is a valid Option, so
\* greeks() on a BinomialTreeModel or MonteCarloModel holding a valid contract
\* returns a Greeks value and never raises a validation error.
C28_PerturbedContractsValid ==
    (last.op = "greeks" /\ engine.cls # "BlackScholesModel" /\ OptionValid(option)) =>
        /\ last.raised = NoException
        /\ \A k \in 1 .. Len(last.pricings) : OptionValid(last.pricings[k].option)
        /\ DOMAIN last.value = {"delta", "gamma", "theta", "vega", "rho"}

\* C29: every value implied_volatility returns lies in [0.001, 5.0], whatever
\* initial_guess, tolerance and max_iterations are, on the Newton-Raphson path
\* and on the bisection path.
C29_ReturnedVolatilityInRange ==
    iv.pc = "returned" =>
        (IV_MIN_VALUE <= iv.result /\ iv.result <= IV_MAX_VALUE)

\* C30: for every valid Option and num_steps >= 1 the risk-neutral probability
\* p of the lattice lies in [0, 1], so that every node value of the backward
\* induction, and the price, is non-negative.
C30_RiskNeutralProbability ==
    (last.op = "price" /\ engine.cls = "BinomialTreeModel" /\ OptionValid(option)) =>
        LET n == engine.num_steps
        IN  /\ 0 <= CRRParameters(option, n).p
            /\ CRRParameters(option, n).p <= ONE
            /\ \A i \in 0 .. n : \A j \in 0 .. i : OptionTreeLevel(option, n, i)[j] >= 0
            /\ last.value >= 0


====
